---- MODULE Spec2Model ----
(***************************************************************************)
(* Toy robot simulator (src/toy_robot.py): the robot state dictionary and  *)
(* the line interpreter process_line with the transitions it dispatches to *)
(* (place, move, rotate_left, rotate_right, report).                       *)
(*                                                                         *)
(* A Python str is modelled as a sequence of one-character strings, so    *)
(* that strip, split, upper, int and the f-string of report are computed  *)
(* character by character.  A value that may be None is modelled as a     *)
(* sequence of length 0 (None) or 1 (the value).                          *)
(***************************************************************************)
EXTENDS Integers, Sequences, FiniteSets

VARIABLES state, line, result, raised, before, stream, pos, trace, outputs,
          argv, visual, stdout, stderr, status, pc

cliVars == <<argv, visual, stdout, stderr, status, pc>>

vars == <<state, line, result, raised, before, stream, pos, trace, outputs,
          argv, visual, stdout, stderr, status, pc>>

----------------------------------------------------------------------------
(* Optional values: Python's None against a present value. *)

None == <<>>

Some(v) == <<v>>

Get(o) == o[1]

----------------------------------------------------------------------------
(* Program constants. *)

TABLE_WIDTH == 5

TABLE_HEIGHT == 5

NORTH == <<"N", "O", "R", "T", "H">>

EAST == <<"E", "A", "S", "T">>

SOUTH == <<"S", "O", "U", "T", "H">>

WEST == <<"W", "E", "S", "T">>

DIRECTIONS == <<NORTH, EAST, SOUTH, WEST>>

PLACE == <<"P", "L", "A", "C", "E">>

MOVE == <<"M", "O", "V", "E">>

LEFT == <<"L", "E", "F", "T">>

RIGHT == <<"R", "I", "G", "H", "T">>

REPORT == <<"R", "E", "P", "O", "R", "T">>

----------------------------------------------------------------------------
(* The str and int built-ins the interpreter uses. *)

Whitespace == {" ", "\t", "\n"}

LowerCase == <<"a", "b", "c", "d", "e", "f", "g", "h", "i", "j", "k", "l", "m",
               "n", "o", "p", "q", "r", "s", "t", "u", "v", "w", "x", "y", "z">>

UpperCase == <<"A", "B", "C", "D", "E", "F", "G", "H", "I", "J", "K", "L", "M",
               "N", "O", "P", "Q", "R", "S", "T", "U", "V", "W", "X", "Y", "Z">>

Digits == <<"0", "1", "2", "3", "4", "5", "6", "7", "8", "9">>

\* list.index: the 1-based position of the first v in seq, 0 when absent
\* (where Python raises ValueError).
RECURSIVE IndexFrom(_, _, _)
IndexFrom(seq, v, i) ==
    IF i > Len(seq) THEN 0
    ELSE IF seq[i] = v THEN i
    ELSE IndexFrom(seq, v, i + 1)

IndexOf(seq, v) == IndexFrom(seq, v, 1)

\* str.upper on one character.
LowerCaseLetters == {LowerCase[i] : i \in 1..Len(LowerCase)}

UpperChar(c) ==
    IF c \notin LowerCaseLetters THEN c ELSE
    CASE c = "a" -> "A"
      [] c = "b" -> "B"
      [] c = "c" -> "C"
      [] c = "d" -> "D"
      [] c = "e" -> "E"
      [] c = "f" -> "F"
      [] c = "g" -> "G"
      [] c = "h" -> "H"
      [] c = "i" -> "I"
      [] c = "j" -> "J"
      [] c = "k" -> "K"
      [] c = "l" -> "L"
      [] c = "m" -> "M"
      [] c = "n" -> "N"
      [] c = "o" -> "O"
      [] c = "p" -> "P"
      [] c = "q" -> "Q"
      [] c = "r" -> "R"
      [] c = "s" -> "S"
      [] c = "t" -> "T"
      [] c = "u" -> "U"
      [] c = "v" -> "V"
      [] c = "w" -> "W"
      [] c = "x" -> "X"
      [] c = "y" -> "Y"
      [] c = "z" -> "Z"
      [] OTHER -> c

\* str.upper
upper(s) == [i \in 1..Len(s) |-> UpperChar(s[i])]

\* str.strip(): drop leading and trailing whitespace.
RECURSIVE lstrip(_)
lstrip(s) ==
    IF s # <<>> /\ Head(s) \in Whitespace THEN lstrip(Tail(s)) ELSE s

RECURSIVE rstrip(_)
rstrip(s) ==
    IF s # <<>> /\ s[Len(s)] \in Whitespace
    THEN rstrip(SubSeq(s, 1, Len(s) - 1))
    ELSE s

strip(s) == rstrip(lstrip(s))

\* str.rstrip(chars): drop the trailing characters that are in chars.
RECURSIVE rstrip_chars(_, _)
rstrip_chars(s, chars) ==
    IF s # <<>> /\ s[Len(s)] \in chars
    THEN rstrip_chars(SubSeq(s, 1, Len(s) - 1), chars)
    ELSE s

\* sep.join(parts)
RECURSIVE join(_, _)
join(sep, parts) ==
    IF parts = <<>> THEN <<>>
    ELSE IF Len(parts) = 1 THEN parts[1]
    ELSE parts[1] \o sep \o join(sep, Tail(parts))

\* print(text) on a stream of printed items; by names the print statement.
print(out, by, text) == Append(out, [by |-> by, text |-> text])

\* str.split(): the maximal runs of non-whitespace characters, in order.
RECURSIVE SplitFrom(_, _, _)
SplitFrom(s, cur, acc) ==
    IF s = <<>>
    THEN IF cur = <<>> THEN acc ELSE Append(acc, cur)
    ELSE IF Head(s) \in Whitespace
         THEN SplitFrom(Tail(s), <<>>,
                        IF cur = <<>> THEN acc ELSE Append(acc, cur))
         ELSE SplitFrom(Tail(s), Append(cur, Head(s)), acc)

split(s) == SplitFrom(s, <<>>, <<>>)

\* str.split(","): the fields between commas, empty fields kept.
RECURSIVE SplitCommaFrom(_, _, _)
SplitCommaFrom(s, cur, acc) ==
    IF s = <<>>
    THEN Append(acc, cur)
    ELSE IF Head(s) = ","
         THEN SplitCommaFrom(Tail(s), <<>>, Append(acc, cur))
         ELSE SplitCommaFrom(Tail(s), Append(cur, Head(s)), acc)

split_comma(s) == SplitCommaFrom(s, <<>>, <<>>)

\* The digits of an int literal: decimal digits, single underscores allowed
\* between two digits.
RECURSIVE IsDigitRun(_, _)
IsDigitRun(s, prevDigit) ==
    IF s = <<>>
    THEN prevDigit
    ELSE IF IndexOf(Digits, Head(s)) # 0
         THEN IsDigitRun(Tail(s), TRUE)
         ELSE Head(s) = "_" /\ prevDigit /\ Tail(s) # <<>>
              /\ IndexOf(Digits, Head(Tail(s))) # 0
              /\ IsDigitRun(Tail(s), FALSE)

RECURSIVE DigitsValue(_, _)
DigitsValue(s, acc) ==
    IF s = <<>>
    THEN acc
    ELSE IF Head(s) = "_"
         THEN DigitsValue(Tail(s), acc)
         ELSE DigitsValue(Tail(s), 10 * acc + (IndexOf(Digits, Head(s)) - 1))

\* int(s): Some(value), or None where Python raises ValueError.
int(s) ==
    LET signed == s # <<>> /\ Head(s) \in {"+", "-"}
        body == IF signed THEN Tail(s) ELSE s
    IN  IF ~IsDigitRun(body, FALSE)
        THEN None
        ELSE IF signed /\ Head(s) = "-"
             THEN Some(0 - DigitsValue(body, 0))
             ELSE Some(DigitsValue(body, 0))

\* str(n) of an int, as the f-string of report formats it.
RECURSIVE NatStr(_)
NatStr(n) ==
    IF n < 10 THEN <<Digits[n + 1]>>
    ELSE Append(NatStr(n \div 10), Digits[(n % 10) + 1])

str(n) == IF n < 0 THEN <<"-">> \o NatStr(0 - n) ELSE NatStr(n)

----------------------------------------------------------------------------
(* The robot state and its transitions.  A transition mutates the state   *)
(* dictionary in place; here it returns the dictionary it leaves behind.   *)

create_initial_state ==
    [x |-> None, y |-> None, facing |-> None, is_placed |-> FALSE]

\* is_valid_position with the upper bounds inclusive.
is_valid_position_inclusive(x, y) ==
    0 <= x /\ x <= TABLE_WIDTH /\ 0 <= y /\ y <= TABLE_HEIGHT

is_valid_position(x, y) ==
    0 <= x /\ x < TABLE_WIDTH /\ 0 <= y /\ y < TABLE_HEIGHT

\* place writing the position before it has validated the facing.
place_partial(st, x, y, facing) ==
    LET f == upper(facing)
    IN  IF ~is_valid_position(x, y)
        THEN st
        ELSE IF IndexOf(DIRECTIONS, f) = 0
             THEN [st EXCEPT !.x = Some(x), !.y = Some(y)]
             ELSE [x |-> Some(x), y |-> Some(y), facing |-> Some(f),
                   is_placed |-> TRUE]

\* place taking the robot off the table on an invalid request.
place_unplaces(st, x, y, facing) ==
    LET f == upper(facing)
    IN  IF IndexOf(DIRECTIONS, f) = 0 \/ ~is_valid_position(x, y)
        THEN [st EXCEPT !.is_placed = FALSE]
        ELSE [x |-> Some(x), y |-> Some(y), facing |-> Some(f),
              is_placed |-> TRUE]

\* place comparing the facing as written, without upper().
place_case_sensitive(st, x, y, facing) ==
    IF IndexOf(DIRECTIONS, facing) = 0
    THEN st
    ELSE IF ~is_valid_position(x, y)
         THEN st
         ELSE [x |-> Some(x), y |-> Some(y), facing |-> Some(facing),
               is_placed |-> TRUE]

\* place keeping the facing of a robot that is already on the table.
place_keep_facing(st, x, y, facing) ==
    LET f == upper(facing)
    IN  IF IndexOf(DIRECTIONS, f) = 0
        THEN st
        ELSE IF ~is_valid_position(x, y)
             THEN st
             ELSE [x |-> Some(x), y |-> Some(y),
                   facing |-> IF st.is_placed THEN st.facing ELSE Some(f),
                   is_placed |-> TRUE]

\* place without the test of the facing.
place_any_facing(st, x, y, facing) ==
    IF ~is_valid_position(x, y)
    THEN st
    ELSE [x |-> Some(x), y |-> Some(y), facing |-> Some(upper(facing)),
          is_placed |-> TRUE]

place(st, x, y, facing) ==
    LET f == upper(facing)
    IN  IF IndexOf(DIRECTIONS, f) = 0
        THEN st
        ELSE IF ~is_valid_position(x, y)
             THEN st
             ELSE [x |-> Some(x), y |-> Some(y), facing |-> Some(f),
                   is_placed |-> TRUE]

\* move turning the robot to NORTH when the step would leave the table.
move_turns_when_blocked(st) ==
    IF ~st.is_placed
    THEN [state |-> st, raised |-> FALSE]
    ELSE LET x == Get(st.x)
             y == Get(st.y)
             f == st.facing
             dx == IF f = Some(EAST) THEN 1
                   ELSE IF f = Some(WEST) THEN 0 - 1
                   ELSE 0
             dy == IF f = Some(NORTH) THEN 1
                   ELSE IF f = Some(SOUTH) THEN 0 - 1
                   ELSE 0
         IN  IF is_valid_position(x + dx, y + dy)
             THEN [state |-> [st EXCEPT !.x = Some(x + dx), !.y = Some(y + dy)],
                   raised |-> FALSE]
             ELSE [state |-> [st EXCEPT !.facing = Some(NORTH)],
                   raised |-> FALSE]

\* move with the displacements of EAST and WEST exchanged.
move_mirrored(st) ==
    IF ~st.is_placed
    THEN [state |-> st, raised |-> FALSE]
    ELSE LET x == Get(st.x)
             y == Get(st.y)
             f == st.facing
             dx == IF f = Some(EAST) THEN 0 - 1
                   ELSE IF f = Some(WEST) THEN 1
                   ELSE 0
             dy == IF f = Some(NORTH) THEN 1
                   ELSE IF f = Some(SOUTH) THEN 0 - 1
                   ELSE 0
         IN  IF is_valid_position(x + dx, y + dy)
             THEN [state |-> [st EXCEPT !.x = Some(x + dx), !.y = Some(y + dy)],
                   raised |-> FALSE]
             ELSE [state |-> st, raised |-> FALSE]

\* move, rotate_left and rotate_right return the state and whether the call
\* raised: None + int is a TypeError, list.index of an absent value a
\* ValueError.
move(st) ==
    IF ~st.is_placed
    THEN [state |-> st, raised |-> FALSE]
    ELSE IF st.x = None \/ st.y = None
         THEN [state |-> st, raised |-> TRUE]
         ELSE LET x == Get(st.x)
                  y == Get(st.y)
                  f == st.facing
                  dx == IF f = Some(NORTH) THEN 0
                        ELSE IF f = Some(SOUTH) THEN 0
                        ELSE IF f = Some(EAST) THEN 1
                        ELSE IF f = Some(WEST) THEN 0 - 1
                        ELSE 0
                  dy == IF f = Some(NORTH) THEN 1
                        ELSE IF f = Some(SOUTH) THEN 0 - 1
                        ELSE 0
                  new_x == x + dx
                  new_y == y + dy
              IN  IF is_valid_position(new_x, new_y)
                  THEN [state |-> [st EXCEPT !.x = Some(new_x),
                                             !.y = Some(new_y)],
                        raised |-> FALSE]
                  ELSE [state |-> st, raised |-> FALSE]

\* rotate_left stepping forward through DIRECTIONS.
rotate_left_forward(st) ==
    IF ~st.is_placed
    THEN [state |-> st, raised |-> FALSE]
    ELSE LET idx == IndexOf(DIRECTIONS, Get(st.facing)) - 1
         IN  [state |-> [st EXCEPT !.facing =
                  Some(DIRECTIONS[((idx + 1) % Len(DIRECTIONS)) + 1])],
              raised |-> FALSE]

\* rotate_left stopping at the first direction of the list instead of
\* wrapping to the last.
rotate_left_no_wrap(st) ==
    IF ~st.is_placed
    THEN [state |-> st, raised |-> FALSE]
    ELSE LET idx == IndexOf(DIRECTIONS, Get(st.facing)) - 1
         IN  [state |-> [st EXCEPT !.facing =
                  Some(DIRECTIONS[(IF idx = 0 THEN 0 ELSE idx - 1) + 1])],
              raised |-> FALSE]

rotate_left(st) ==
    IF ~st.is_placed
    THEN [state |-> st, raised |-> FALSE]
    ELSE IF st.facing = None \/ IndexOf(DIRECTIONS, Get(st.facing)) = 0
         THEN [state |-> st, raised |-> TRUE]
         ELSE LET idx == IndexOf(DIRECTIONS, Get(st.facing)) - 1
              IN  [state |-> [st EXCEPT !.facing =
                       Some(DIRECTIONS[((idx - 1) % Len(DIRECTIONS)) + 1])],
                   raised |-> FALSE]

\* rotate_right stepping backward through DIRECTIONS.
rotate_right_backward(st) ==
    IF ~st.is_placed
    THEN [state |-> st, raised |-> FALSE]
    ELSE LET idx == IndexOf(DIRECTIONS, Get(st.facing)) - 1
         IN  [state |-> [st EXCEPT !.facing =
                  Some(DIRECTIONS[((idx - 1) % Len(DIRECTIONS)) + 1])],
              raised |-> FALSE]

rotate_right(st) ==
    IF ~st.is_placed
    THEN [state |-> st, raised |-> FALSE]
    ELSE IF st.facing = None \/ IndexOf(DIRECTIONS, Get(st.facing)) = 0
         THEN [state |-> st, raised |-> TRUE]
         ELSE LET idx == IndexOf(DIRECTIONS, Get(st.facing)) - 1
              IN  [state |-> [st EXCEPT !.facing =
                       Some(DIRECTIONS[((idx + 1) % Len(DIRECTIONS)) + 1])],
                   raised |-> FALSE]

\* The f-string of report formats x, y and facing with str().
FormatField(o) == IF o = None THEN <<"N", "o", "n", "e">> ELSE str(Get(o))

FormatFacing(o) == IF o = None THEN <<"N", "o", "n", "e">> ELSE Get(o)

\* report formatting y before x.
report_swapped(st) ==
    IF ~st.is_placed
    THEN None
    ELSE Some(FormatField(st.y) \o <<",">> \o FormatField(st.x) \o <<",">>
              \o FormatFacing(st.facing))

report(st) ==
    IF ~st.is_placed
    THEN None
    ELSE Some(FormatField(st.x) \o <<",">> \o FormatField(st.y) \o <<",">>
              \o FormatFacing(st.facing))

----------------------------------------------------------------------------
(* The ASCII visualization.  render_table is handed the state itself, so   *)
(* it is modelled by the state it leaves and the text it returns.          *)

direction_symbol(facing) ==
    CASE facing = Some(NORTH) -> "^"
      [] facing = Some(SOUTH) -> "v"
      [] facing = Some(EAST) -> ">"
      [] facing = Some(WEST) -> "<"
      [] OTHER -> "?"

horizontal_border ==
    <<"+">> \o join(<<"+">>, [i \in 1..TABLE_WIDTH |-> <<"-", "-", "-">>])
    \o <<"+">>

\* "|" + cell for the column x of the row y.
row_cell(st, x, y) ==
    IF st.is_placed /\ st.x = Some(x) /\ st.y = Some(y)
    THEN <<"|", " ", direction_symbol(st.facing), " ">>
    ELSE <<"|", " ", " ", " ">>

table_row(st, y) ==
    join(<<>>, [i \in 1..TABLE_WIDTH |-> row_cell(st, i - 1, y)]) \o <<"|">>

\* The last line of the text.
robot_line(st) ==
    IF st.is_placed
    THEN <<"R", "o", "b", "o", "t", ":", " ">>
         \o FormatField(st.x) \o <<",">> \o FormatField(st.y) \o <<",">>
         \o FormatFacing(st.facing)
    ELSE <<"R", "o", "b", "o", "t", " ", "n", "o", "t", " ",
           "p", "l", "a", "c", "e", "d", ".">>

\* The lines of the text: for y from TABLE_HEIGHT - 1 down to 0 a border and
\* the row y, then a border and the robot line.
table_lines(st) ==
    [i \in 1..(2 * TABLE_HEIGHT + 2) |->
        IF i = 2 * TABLE_HEIGHT + 2 THEN robot_line(st)
        ELSE IF i % 2 = 1 THEN horizontal_border
        ELSE table_row(st, TABLE_HEIGHT - (i \div 2))]

\* render_table clearing the placement of the state it draws.
render_table_unplaces(st) ==
    [state |-> [st EXCEPT !.is_placed = FALSE],
     text |-> join(<<"\n">>, table_lines(st))]

render_table(st) ==
    [state |-> st, text |-> join(<<"\n">>, table_lines(st))]

----------------------------------------------------------------------------
(* process_line: what one call leaves (state), returns (result) and        *)
(* whether an exception escaped it (raised).                               *)

Outcome(st, res, exc) == [state |-> st, result |-> res, raised |-> exc]

\* The try block taking the first three fields and dropping any others.
ParsePlaceArgs_first_three(args_part) ==
    LET fields == split_comma(args_part)
    IN  IF Len(fields) < 3
        THEN None
        ELSE IF int(fields[1]) = None \/ int(fields[2]) = None
             THEN None
             ELSE Some([x |-> Get(int(fields[1])),
                        y |-> Get(int(fields[2])),
                        facing |-> fields[3]])

\* The try block of the PLACE branch: the three-way unpacking of
\* args_part.split(",") and the two int() calls; None stands for the
\* ValueError any of them raises.
ParsePlaceArgs(args_part) ==
    LET fields == split_comma(args_part)
    IN  IF Len(fields) # 3
        THEN None
        ELSE IF int(fields[1]) = None \/ int(fields[2]) = None
             THEN None
             ELSE Some([x |-> Get(int(fields[1])),
                        y |-> Get(int(fields[2])),
                        facing |-> fields[3]])

\* lex taking all the tokens after the keyword, joined, as the arguments of
\* PLACE.
lex_joins_tokens(raw) ==
    LET l == strip(raw)
        parts == split(l)
        cmd == upper(parts[1])
    IN  IF l = <<>>
        THEN [blank |-> TRUE, cmd |-> <<>>, args |-> None]
        ELSE [blank |-> FALSE,
              cmd |-> cmd,
              args |-> IF cmd = PLACE /\ ~(Len(parts) < 2)
                       THEN ParsePlaceArgs(join(<<>>, Tail(parts)))
                       ELSE None]

\* The part of process_line that reads only the line: strip, the blank
\* test, split, the upper-cased keyword, and for PLACE the length test and
\* the try block.  args is None for a PLACE whose arguments are missing or
\* malformed (both return None early) and for every other keyword.
lex(raw) ==
    LET l == strip(raw)
        parts == split(l)
        cmd == upper(parts[1])
    IN  IF l = <<>>
        THEN [blank |-> TRUE, cmd |-> <<>>, args |-> None]
        ELSE [blank |-> FALSE,
              cmd |-> cmd,
              args |-> IF cmd = PLACE /\ ~(Len(parts) < 2)
                       THEN ParsePlaceArgs(parts[2])
                       ELSE None]

\* process_line ending its chain of keyword tests in a plain else that
\* reports, instead of the test for REPORT.
dispatch_else_report(st, lx) ==
    IF lx.blank
    THEN Outcome(st, None, FALSE)
    ELSE IF lx.cmd = PLACE
         THEN IF lx.args = None
              THEN Outcome(st, None, FALSE)
              ELSE Outcome(place(st, Get(lx.args).x, Get(lx.args).y,
                                 Get(lx.args).facing),
                           None, FALSE)
         ELSE IF ~st.is_placed
              THEN Outcome(st, None, FALSE)
              ELSE IF lx.cmd = MOVE
                   THEN Outcome(move(st).state, None, move(st).raised)
                   ELSE IF lx.cmd = LEFT
                        THEN Outcome(rotate_left(st).state, None,
                                     rotate_left(st).raised)
                        ELSE IF lx.cmd = RIGHT
                             THEN Outcome(rotate_right(st).state, None,
                                          rotate_right(st).raised)
                             ELSE Outcome(st, report(st), FALSE)

\* The part of process_line that acts on the state, given what was read.
dispatch(st, lx) ==
    IF lx.blank
    THEN Outcome(st, None, FALSE)
    ELSE IF lx.cmd = PLACE
         THEN IF lx.args = None
              THEN Outcome(st, None, FALSE)
              ELSE Outcome(place(st, Get(lx.args).x, Get(lx.args).y,
                                 Get(lx.args).facing),
                           None, FALSE)
         ELSE IF ~st.is_placed
              THEN Outcome(st, None, FALSE)
              ELSE IF lx.cmd = MOVE
                   THEN Outcome(move(st).state, None, move(st).raised)
                   ELSE IF lx.cmd = LEFT
                        THEN Outcome(rotate_left(st).state, None,
                                     rotate_left(st).raised)
                        ELSE IF lx.cmd = RIGHT
                             THEN Outcome(rotate_right(st).state, None,
                                          rotate_right(st).raised)
                             ELSE IF lx.cmd = REPORT
                                  THEN Outcome(st, report(st), FALSE)
                                  ELSE Outcome(st, None, FALSE)

process_line(st, raw) == dispatch(st, lex(raw))

----------------------------------------------------------------------------
(* The lines fed to process_line. *)

\* Coordinates written in PLACE lines run from -1 to MaxCoord.
MaxCoord == 5

CoordInputs == (0 - 1)..MaxCoord

lower(s) ==
    [i \in 1..Len(s) |->
        IF IndexOf(UpperCase, s[i]) = 0 THEN s[i]
        ELSE LowerCase[IndexOf(UpperCase, s[i])]]

Sp == <<" ">>

Comma == <<",">>

Args(xs, ys, f) == xs \o Comma \o ys \o Comma \o f

PlaceLine(x, y, f) == PLACE \o Sp \o Args(str(x), str(y), f)

\* PLACE x,y,F for every cell of the table and every direction name.
GridPlaceLines ==
    {PlaceLine(x, y, DIRECTIONS[d]) :
        x \in 0..(TABLE_WIDTH - 1), y \in 0..(TABLE_HEIGHT - 1),
        d \in 1..Len(DIRECTIONS)}

\* PLACE x,y,F for every written coordinate pair off the table.
OffGridPlaceLines ==
    {PlaceLine(xy[1], xy[2], DIRECTIONS[((xy[1] + xy[2]) % Len(DIRECTIONS)) + 1]) :
        xy \in {p \in CoordInputs \X CoordInputs :
                   ~(p[1] \in 0..(TABLE_WIDTH - 1) /\ p[2] \in 0..(TABLE_HEIGHT - 1))}}

\* PLACE lines that parse, in other spellings: letter case, signs, leading
\* zeros, underscores, surrounding and repeated whitespace, trailing tokens,
\* and facings that are no direction name.
SpelledPlaceLines ==
    { lower(PLACE) \o Sp \o Args(<<"0">>, <<"0">>, lower(NORTH)),
      PLACE \o Sp \o Args(<<"3">>, <<"3">>, <<"W", "e", "s", "t">>),
      <<"P", "l", "A", "c", "E">> \o Sp \o Args(<<"4">>, <<"0">>, lower(SOUTH)),
      PLACE \o Sp \o Args(<<"+", "1">>, <<"0", "2">>, SOUTH),
      PLACE \o Sp \o Args(<<"-", "0">>, <<"4">>, EAST),
      PLACE \o Sp \o Args(<<"0", "_", "3">>, <<"1">>, EAST),
      PLACE \o Sp \o Args(<<"1", "_", "0">>, <<"1">>, EAST),
      Sp \o <<"\t">> \o PLACE \o Sp \o Sp \o Args(<<"2">>, <<"1">>, WEST) \o Sp,
      PLACE \o <<"\t">> \o Args(<<"4">>, <<"4">>, NORTH),
      PLACE \o Sp \o Args(<<"1">>, <<"2">>, NORTH) \o Sp \o <<"E", "X", "T", "R", "A">>,
      PLACE \o Sp \o Args(<<"2">>, <<"2">>, <<"U", "P">>),
      PLACE \o Sp \o Args(<<"2">>, <<"2">>, <<"N">>),
      PLACE \o Sp \o Args(<<"2">>, <<"2">>, NORTH \o <<"S">>),
      PLACE \o Sp \o Args(<<"1">>, <<"2">>, <<>>),
      PLACE \o Sp \o Args(<<"9">>, <<"9">>, <<"d", "o", "w", "n">>) }

\* PLACE lines whose arguments do not parse.
MalformedPlaceLines ==
    { PLACE,
      lower(PLACE) \o Sp,
      PLACE \o Sp \o <<"f", "o", "o">>,
      PLACE \o Sp \o <<"1">> \o Comma \o <<"2">>,
      PLACE \o Sp \o Args(<<"1">>, <<"2">>, NORTH) \o Comma \o <<"E", "X", "T", "R", "A">>,
      PLACE \o Sp \o <<"1">> \o Comma \o <<"2">> \o Comma \o Sp \o NORTH,
      PLACE \o Sp \o <<"1">> \o Sp \o <<"2">> \o Sp \o NORTH,
      PLACE \o Sp \o Args(<<"a">>, <<"1">>, EAST),
      PLACE \o Sp \o Args(<<"1">>, <<"b">>, EAST),
      PLACE \o Sp \o Args(<<"1", ".", "5">>, <<"2">>, NORTH),
      PLACE \o Sp \o Args(<<>>, <<"1">>, NORTH),
      PLACE \o Sp \o Args(<<"1">>, <<"-">>, NORTH),
      PLACE \o Sp \o Args(<<"1", "_">>, <<"1">>, NORTH),
      PLACE \o Sp \o Args(<<"_", "1">>, <<"1">>, NORTH),
      PLACE \o Sp \o Args(<<"1">>, <<"+", "-", "1">>, WEST),
      PLACE \o Sp \o Args(NORTH, <<"1">>, <<"1">>) }

\* The keyword-only commands, in several spellings.
CommandLines ==
    { MOVE, LEFT, RIGHT, REPORT,
      lower(MOVE), lower(LEFT), <<"R", "i", "g", "h", "t">>,
      <<"r", "E", "p", "O", "r", "T">>,
      Sp \o Sp \o LEFT \o Sp,
      <<"\t">> \o RIGHT,
      MOVE \o Sp \o <<"E", "X", "T", "R", "A">>,
      REPORT \o Sp \o Args(<<"1">>, <<"2">>, NORTH) }

\* Blank lines and lines whose keyword is no command.
IgnoredLines ==
    { <<>>, Sp, Sp \o <<"\t">> \o Sp,
      <<"J", "U", "M", "P">>,
      PLACE \o <<"S">> \o Sp \o Args(<<"1">>, <<"2">>, NORTH),
      <<"M", "O", "V">>,
      MOVE \o Comma,
      Args(<<"1">>, <<"2">>, NORTH),
      NORTH,
      PLACE \o Comma \o Args(<<"1">>, <<"2">>, NORTH) }

Lines ==
    GridPlaceLines \cup OffGridPlaceLines \cup SpelledPlaceLines \cup MalformedPlaceLines
    \cup CommandLines \cup IgnoredLines

----------------------------------------------------------------------------
(* The callers.  line, result and raised record the latest process_line    *)
(* call and before the state it was made on.                               *)

\* parts[0].upper() of a line, None for a blank line.
Keyword(raw) ==
    IF strip(raw) = <<>> THEN None ELSE Some(upper(split(strip(raw))[1]))

\* main is not called: the interpreter is used as a library.
NoMain ==
    /\ argv = <<>>
    /\ visual = FALSE
    /\ stdout = <<>>
    /\ stderr = <<>>
    /\ status = None
    /\ pc = "idle"

\* lex of every line, computed once.
Lexed == [raw \in Lines |-> lex(raw)]

Calls == {[raw |-> raw, lx |-> Lexed[raw]] : raw \in Lines}

\* lex of any line.
LexOf(raw) == IF raw \in Lines THEN Lexed[raw] ELSE lex(raw)

Init ==
    /\ state = create_initial_state
    /\ line = None
    /\ result = None
    /\ raised = FALSE
    /\ before = create_initial_state
    /\ stream = <<>>
    /\ pos = 0
    /\ trace = <<>>
    /\ outputs = <<>>
    /\ NoMain

\* One process_line call on the state, with any line, after any history of
\* such calls.
ProcessLine(call) ==
    LET out == dispatch(state, call.lx)
    IN  /\ ~raised
        /\ pc = "idle"
        /\ state' = out.state
        /\ result' = out.result
        /\ raised' = out.raised
        /\ line' = Some(call.raw)
        /\ before' = state
        /\ UNCHANGED <<stream, pos, trace, outputs>>
        /\ UNCHANGED cliVars

Next == \E call \in Calls : ProcessLine(call)

Spec == Init /\ [][Next]_vars

----------------------------------------------------------------------------
(* run_commands of the tests: a fresh state, the lines of a list processed *)
(* in order, the results that are not None collected.  trace[k] is the     *)
(* state after the k-th line.                                              *)

\* The lists run: a first line that leaves any one state of the table (or
\* leaves the robot unplaced), then any line, then a keyword-only line.
FirstLines == GridPlaceLines \cup {MOVE, PLACE \o Sp \o <<"f", "o", "o">>}

FinalLines == {REPORT, LEFT, RIGHT, MOVE}

Streams == {<<a, b, c>> : a \in FirstLines, b \in Lines, c \in FinalLines}

InitStream ==
    /\ state = create_initial_state
    /\ line = None
    /\ result = None
    /\ raised = FALSE
    /\ before = create_initial_state
    /\ stream \in Streams
    /\ pos = 0
    /\ trace = <<>>
    /\ outputs = <<>>
    /\ NoMain

RunCommandsStep ==
    LET out == dispatch(state, LexOf(stream[pos + 1]))
    IN  /\ pos < Len(stream)
        /\ ~raised
        /\ pc = "idle"
        /\ state' = out.state
        /\ result' = out.result
        /\ raised' = out.raised
        /\ line' = Some(stream[pos + 1])
        /\ before' = state
        /\ pos' = pos + 1
        /\ trace' = Append(trace, out.state)
        /\ outputs' = IF out.result # None /\ ~out.raised
                      THEN Append(outputs, Get(out.result))
                      ELSE outputs
        /\ UNCHANGED stream
        /\ UNCHANGED cliVars

NextStream == RunCommandsStep

SpecStream == InitStream /\ [][NextStream]_vars

\* run_commands as a function of its list: the state it ends in and the
\* outputs it returns, from the state st and the outputs outs so far.
RECURSIVE RunFrom(_, _, _)
RunFrom(st, outs, lines) ==
    IF lines = <<>>
    THEN [state |-> st, outputs |-> outs]
    ELSE LET out == dispatch(st, LexOf(Head(lines)))
         IN  RunFrom(out.state,
                     IF out.result # None
                     THEN Append(outs, Get(out.result))
                     ELSE outs,
                     Tail(lines))

run_commands(lines) == RunFrom(create_initial_state, <<>>, lines)

\* Lists of five lines: a first line, then four turns.
TurnLines == {LEFT, RIGHT, lower(LEFT)}

TurnStreams ==
    {<<a, b, c, d, e>> :
        a \in FirstLines, b \in TurnLines, c \in TurnLines, d \in TurnLines,
        e \in TurnLines}

InitTurns ==
    /\ state = create_initial_state
    /\ line = None
    /\ result = None
    /\ raised = FALSE
    /\ before = create_initial_state
    /\ stream \in TurnStreams
    /\ pos = 0
    /\ trace = <<>>
    /\ outputs = <<>>
    /\ NoMain

SpecTurns == InitTurns /\ [][NextStream]_vars

\* Lists of three lines in mixed letter case.
CaseLines ==
    { PlaceLine(0, 0, NORTH),
      lower(PLACE) \o Sp \o Args(<<"0">>, <<"0">>, lower(NORTH)),
      PLACE \o Sp \o Args(<<"3">>, <<"3">>, <<"W", "e", "s", "t">>),
      <<"P", "l", "A", "c", "E">> \o Sp \o Args(<<"4">>, <<"0">>, lower(SOUTH)),
      lower(PLACE) \o Sp \o Args(<<"2">>, <<"2">>, <<"u", "p">>),
      MOVE, lower(MOVE), <<"M", "o", "V", "e">>,
      LEFT, lower(LEFT),
      RIGHT, <<"R", "i", "g", "h", "t">>,
      REPORT, lower(REPORT), <<"r", "E", "p", "O", "r", "T">>,
      <<"j", "u", "m", "p">> }

CaseStreams == {<<a, b, c>> : a \in CaseLines, b \in CaseLines, c \in CaseLines}

InitCase ==
    /\ state = create_initial_state
    /\ line = None
    /\ result = None
    /\ raised = FALSE
    /\ before = create_initial_state
    /\ stream \in CaseStreams
    /\ pos = 0
    /\ trace = <<>>
    /\ outputs = <<>>
    /\ NoMain

SpecCase == InitCase /\ [][NextStream]_vars

----------------------------------------------------------------------------
(* main and run_stream.  argv is the argument list, stream the lines the   *)
(* source (the file named first, or stdin) yields, pos the number of lines *)
(* read, stdout and stderr what was printed, status what main returned     *)
(* (None until it returns, and when an exception leaves it).  The source   *)
(* is read a line at a time, and any read can fail with an OSError.        *)

Newline == <<"\n">>

\* The lines a source yields: with the newline that ends them, but for one
\* without, as the last line of a file may be.
SourceLines ==
    { PlaceLine(1, 2, EAST) \o Newline,
      MOVE \o Newline,
      LEFT \o Newline,
      REPORT \o Newline,
      lower(REPORT),
      Sp \o Newline }

SourceStreams ==
    {<<a, b, c, d>> : a \in SourceLines, b \in SourceLines,
                      c \in SourceLines, d \in SourceLines}

\* The files open() opens; it raises an OSError for any other name.
Files == {"cmds.txt"}

Argvs ==
    { <<>>, <<"-v">>,
      <<"cmds.txt">>, <<"--visual", "cmds.txt">>, <<"cmds.txt", "missing.txt">>,
      <<"missing.txt">>, <<"missing.txt", "-v">> }

IsFlag(arg) == arg \in {"--visual", "-v"}

\* The loop of main over argv.
visual_of(args) == \E i \in 1..Len(args) : IsFlag(args[i])

NotFlag(arg) == ~IsFlag(arg)

filenames_of(args) == SelectSeq(args, NotFlag)

InitMain ==
    /\ state = create_initial_state
    /\ line = None
    /\ result = None
    /\ raised = FALSE
    /\ before = create_initial_state
    /\ stream \in SourceStreams
    /\ pos = 0
    /\ trace = <<>>
    /\ outputs = <<>>
    /\ argv \in Argvs
    /\ visual = FALSE
    /\ stdout = <<>>
    /\ stderr = <<>>
    /\ status = None
    /\ pc = "main"

\* The body of the loop of run_stream printing a report after every line.
run_stream_line_reports_all(st, out, raw_line, vis) ==
    LET ln == rstrip_chars(raw_line, {"\n"})
        r == dispatch(st, LexOf(ln))
        stripped == strip(ln)
        out1 == IF vis /\ stripped # <<>>
                THEN print(out, "echo", <<"\n", ">", " ">> \o stripped)
                ELSE out
        board == render_table(r.state)
        out2 == IF vis THEN print(out1, "board", board.text) ELSE out1
    IN  [state |-> IF vis THEN board.state ELSE r.state,
         result |-> r.result,
         raised |-> r.raised,
         stdout |-> IF report(r.state) # None
                    THEN print(out2, "result", Get(report(r.state)))
                    ELSE out2]

\* The body of the loop of run_stream, for one line of the source: the
\* state and the output it leaves.
run_stream_line(st, out, raw_line, vis) ==
    LET ln == rstrip_chars(raw_line, {"\n"})
        r == dispatch(st, LexOf(ln))
        stripped == strip(ln)
        out1 == IF vis /\ stripped # <<>>
                THEN print(out, "echo", <<"\n", ">", " ">> \o stripped)
                ELSE out
        board == render_table(r.state)
        out2 == IF vis THEN print(out1, "board", board.text) ELSE out1
    IN  [state |-> IF vis THEN board.state ELSE r.state,
         result |-> r.result,
         raised |-> r.raised,
         stdout |-> IF r.result # None
                    THEN print(out2, "result", Get(r.result))
                    ELSE out2]

\* The except clause of main returning 0.
main_except_returns_0(err, filename) ==
    [stderr |-> print(err, "error", filename), status |-> Some(0)]

\* The except clause of main: the error printed on stderr, 1 returned.
main_except(err, filename) ==
    [stderr |-> print(err, "error", filename), status |-> Some(1)]

\* run_stream from its first line to the end of lines, with no read failing:
\* the state and the output it leaves and the states it passed through.
RECURSIVE RunStreamFrom(_, _, _, _, _)
RunStreamFrom(st, out, tr, lines, vis) ==
    IF lines = <<>>
    THEN [state |-> st, stdout |-> out, trace |-> tr]
    ELSE LET o == run_stream_line(st, out, Head(lines), vis)
         IN  RunStreamFrom(o.state, o.stdout, Append(tr, o.state),
                           Tail(lines), vis)

run_stream(lines, vis) ==
    LET board == render_table(create_initial_state)
    IN  IF vis
        THEN RunStreamFrom(board.state, print(<<>>, "board", board.text),
                           <<>>, lines, vis)
        ELSE RunStreamFrom(create_initial_state, <<>>, <<>>, lines, vis)

\* open() of the file main names raises an OSError.
open_fails(args) ==
    /\ filenames_of(args) # <<>>
    /\ filenames_of(args)[1] \notin Files

\* main up to the loop of run_stream: the flags, the file opened, the fresh
\* state and, with the flag, the empty table printed.
MainStart ==
    /\ pc = "main"
    /\ visual' = visual_of(argv)
    /\ IF open_fails(argv)
       THEN LET exc == main_except(stderr, filenames_of(argv)[1])
            IN  /\ stderr' = exc.stderr
                /\ status' = exc.status
                /\ pc' = "returned"
                /\ UNCHANGED <<state, stdout>>
       ELSE LET board == render_table(create_initial_state)
            IN  /\ state' = IF visual' THEN board.state
                            ELSE create_initial_state
                /\ stdout' = IF visual'
                             THEN print(stdout, "board", board.text)
                             ELSE stdout
                /\ pc' = "run_stream"
                /\ UNCHANGED <<stderr, status>>
    /\ UNCHANGED <<line, result, raised, before, stream, pos, trace, outputs,
                   argv>>

\* One turn of the loop of run_stream: the next line is read and processed,
\* and what it calls for is printed.
RunStreamStep ==
    LET out == run_stream_line(state, stdout, stream[pos + 1], visual)
    IN  /\ pc = "run_stream"
        /\ pos < Len(stream)
        /\ state' = out.state
        /\ result' = out.result
        /\ raised' = out.raised
        /\ stdout' = out.stdout
        /\ line' = Some(stream[pos + 1])
        /\ before' = state
        /\ pos' = pos + 1
        /\ trace' = Append(trace, out.state)
        /\ IF out.raised
           THEN /\ pc' = "returned"
                /\ stderr' = print(stderr, "traceback", "Exception")
           ELSE UNCHANGED <<pc, stderr>>
        /\ UNCHANGED <<stream, outputs, argv, visual, status>>

\* Reading the next line raises an OSError.  Read from a file, main catches
\* it, prints the error and returns 1; read from stdin, it leaves main.
ReadFails ==
    /\ pc = "run_stream"
    /\ pc' = "returned"
    /\ IF filenames_of(argv) # <<>>
       THEN LET exc == main_except(stderr, filenames_of(argv)[1])
            IN  /\ stderr' = exc.stderr
                /\ status' = exc.status
                /\ UNCHANGED raised
       ELSE /\ stderr' = print(stderr, "traceback", "OSError")
            /\ raised' = TRUE
            /\ UNCHANGED status
    /\ UNCHANGED <<state, line, result, before, stream, pos, trace, outputs,
                   argv, visual, stdout>>

\* The source is at its end: run_stream returns and main returns 0.
MainReturn ==
    /\ pc = "run_stream"
    /\ pos = Len(stream)
    /\ status' = Some(0)
    /\ pc' = "returned"
    /\ UNCHANGED <<state, line, result, raised, before, stream, pos, trace,
                   outputs, argv, visual, stdout, stderr>>

NextMain == MainStart \/ RunStreamStep \/ ReadFails \/ MainReturn

SpecMain == InitMain /\ [][NextMain]_vars

----------------------------------------------------------------------------
(* How the properties read a line, from the command grammar: the keyword   *)
(* is the first whitespace-separated token in upper case, the arguments of *)
(* PLACE are the second token.                                             *)

KeywordOf == [raw \in Lines |-> Keyword(raw)]

IsCommand(l, kw) == l # None /\ KeywordOf[Get(l)] = Some(kw)

DirectionNames == {NORTH, EAST, SOUTH, WEST}

OnTable(x, y) == x \in 0..4 /\ y \in 0..4

Placed(x, y, f) ==
    [x |-> Some(x), y |-> Some(y), facing |-> Some(f), is_placed |-> TRUE]

\* The second token of a PLACE line has exactly three comma-separated fields
\* with integer X and Y.
PlaceParses(raw) ==
    /\ Keyword(raw) = Some(PLACE)
    /\ Len(split(strip(raw))) >= 2
    /\ LET fields == split_comma(split(strip(raw))[2])
       IN  /\ Len(fields) = 3
           /\ int(fields[1]) # None
           /\ int(fields[2]) # None

PlaceX(raw) == Get(int(split_comma(split(strip(raw))[2])[1]))

PlaceY(raw) == Get(int(split_comma(split(strip(raw))[2])[2]))

PlaceFacing(raw) == split_comma(split(strip(raw))[2])[3]

\* PLACE lines that parse, name a cell of the table and a direction.
ValidPlaceLines ==
    {raw \in Lines :
        /\ PlaceParses(raw)
        /\ OnTable(PlaceX(raw), PlaceY(raw))
        /\ upper(PlaceFacing(raw)) \in DirectionNames}

\* PLACE lines that parse but name a cell off the table or no direction.
RejectedPlaceLines ==
    {raw \in Lines :
        /\ PlaceParses(raw)
        /\ ~(/\ OnTable(PlaceX(raw), PlaceY(raw))
             /\ upper(PlaceFacing(raw)) \in DirectionNames)}

\* PLACE lines whose arguments are missing or do not parse.
MalformedPlace ==
    {raw \in Lines : Keyword(raw) = Some(PLACE) /\ ~PlaceParses(raw)}

----------------------------------------------------------------------------
(* Properties.  Under Spec, line, result, raised and before describe the   *)
(* latest process_line call; under SpecStream, stream[1..pos] are the      *)
(* lines processed so far and trace[k] the state after the k-th.           *)

\* C1: in every reachable state, a placed robot has 0 <= x < 5, 0 <= y < 5
\* and a facing that is one of NORTH, EAST, SOUTH, WEST.
C1_PlacedOnTable ==
    state.is_placed =>
        /\ state.x # None
        /\ state.y # None
        /\ state.facing # None
        /\ OnTable(Get(state.x), Get(state.y))
        /\ Get(state.facing) \in DirectionNames

\* A robot in the far corner facing EAST that has just been told to MOVE.
C1_Witness ==
    /\ IsCommand(line, MOVE)
    /\ before = Placed(4, 4, EAST)
    /\ state = Placed(4, 4, EAST)

\* C2: as long as no PLACE has succeeded, every call has returned None and
\* left the state equal to the initial unplaced state.
C2_UnplacedUntouched ==
    ~state.is_placed =>
        /\ state = create_initial_state
        /\ before = create_initial_state
        /\ result = None
        /\ ~raised

\* REPORT processed while unplaced, after an earlier unplaced call.
C2_Witness ==
    /\ IsCommand(line, REPORT)
    /\ ~before.is_placed
    /\ ~state.is_placed
    /\ result = None

\* C3: no call takes a placed robot back to unplaced.
C3_PlacedForever == [][state.is_placed => state'.is_placed]_vars

\* A malformed PLACE processed on a placed robot, which stays placed.
C3_Witness ==
    /\ line = Some(PLACE \o Sp \o <<"f", "o", "o">>)
    /\ before.is_placed
    /\ state.is_placed

\* C4: a call takes the robot from unplaced to placed if and only if its
\* line is a PLACE whose second token has exactly three comma-separated
\* fields, integer X and Y on the table and a direction name as FACING.
C4_PlacedOnlyByValidPlace ==
    [][~state.is_placed =>
          (state'.is_placed <=>
              (line' # None /\ Get(line') \in ValidPlaceLines))]_vars

\* The first placement, made by a PLACE written in lower case.
C4_Witness ==
    /\ line = Some(lower(PLACE) \o Sp \o Args(<<"0">>, <<"0">>, lower(NORTH)))
    /\ ~before.is_placed
    /\ state = Placed(0, 0, NORTH)

\* C5: PLACE x,y,F for a cell of the table and a direction, from any state,
\* leaves exactly (x, y, F), and a REPORT right after it returns "x,y,F".
C5_PlaceThenReport ==
    /\ (pos >= 1 /\ stream[pos] \in GridPlaceLines) =>
           \E x \in 0..4, y \in 0..4, f \in DirectionNames :
               /\ stream[pos] = PlaceLine(x, y, f)
               /\ state = Placed(x, y, f)
               /\ result = None
    /\ (pos >= 2 /\ stream[pos - 1] \in GridPlaceLines /\ stream[pos] = REPORT) =>
           \E x \in 0..4, y \in 0..4, f \in DirectionNames :
               /\ stream[pos - 1] = PlaceLine(x, y, f)
               /\ result = Some(Args(str(x), str(y), f))
               /\ state = Placed(x, y, f)

\* A robot at 0,0,NORTH placed again at 3,4,WEST and then asked to REPORT.
C5_Witness ==
    /\ pos = 3
    /\ trace[1] = Placed(0, 0, NORTH)
    /\ stream[2] = PlaceLine(3, 4, WEST)
    /\ stream[3] = REPORT
    /\ result = Some(<<"3", ",", "4", ",", "W", "E", "S", "T">>)

\* C6: a PLACE that parses but names a cell off the table or no direction
\* leaves x, y, facing and is_placed as they were and raises nothing.
C6_RejectedPlaceIsNoOp ==
    (line # None /\ Get(line) \in RejectedPlaceLines) =>
        /\ state = before
        /\ result = None
        /\ ~raised

\* PLACE 5,2 with a direction name, processed on a placed robot.
C6_Witness ==
    /\ \E f \in DirectionNames : line = Some(PlaceLine(5, 2, f))
    /\ before = Placed(1, 1, SOUTH)
    /\ state = Placed(1, 1, SOUTH)

\* C7: a PLACE with no argument token, with fewer or more than three
\* fields, or with a non-integer X or Y returns None, raises nothing and
\* leaves the state unchanged.
C7_MalformedPlaceIgnored ==
    (line # None /\ Get(line) \in MalformedPlace) =>
        /\ state = before
        /\ result = None
        /\ ~raised

\* PLACE 1,2,NORTH,EXTRA processed on a placed robot.
C7_Witness ==
    /\ line = Some(PLACE \o Sp \o Args(<<"1">>, <<"2">>, NORTH) \o Comma
                   \o <<"E", "X", "T", "R", "A">>)
    /\ before = Placed(3, 3, EAST)
    /\ state = Placed(3, 3, EAST)

UnitX(f) == CASE f = EAST -> 1 [] f = WEST -> 0 - 1 [] OTHER -> 0

UnitY(f) == CASE f = NORTH -> 1 [] f = SOUTH -> 0 - 1 [] OTHER -> 0

\* C8: MOVE on a placed robot adds the unit vector of the facing to (x, y)
\* exactly when the target is on the table and otherwise changes nothing;
\* facing and is_placed stay, and the position stays on the table.
C8_MoveByUnitVector ==
    (IsCommand(line, MOVE) /\ before.is_placed) =>
        LET tx == Get(before.x) + UnitX(Get(before.facing))
            ty == Get(before.y) + UnitY(Get(before.facing))
        IN  /\ state = IF OnTable(tx, ty)
                       THEN Placed(tx, ty, Get(before.facing))
                       ELSE before
            /\ OnTable(Get(state.x), Get(state.y))
            /\ ~raised

\* A MOVE that took a robot facing WEST from 1,2 to 0,2.
C8_Witness ==
    /\ IsCommand(line, MOVE)
    /\ before = Placed(1, 2, WEST)
    /\ state = Placed(0, 2, WEST)

LeftOf(f) ==
    CASE f = NORTH -> WEST [] f = WEST -> SOUTH
      [] f = SOUTH -> EAST [] f = EAST -> NORTH

RightOf(f) ==
    CASE f = NORTH -> EAST [] f = EAST -> SOUTH
      [] f = SOUTH -> WEST [] f = WEST -> NORTH

\* C9: on a placed robot LEFT turns the facing one step along
\* NORTH, WEST, SOUTH, EAST, NORTH and RIGHT one step along NORTH, EAST,
\* SOUTH, WEST, NORTH, the position staying; unplaced, both change nothing.
C9_RotateOneStep ==
    /\ (IsCommand(line, LEFT) /\ before.is_placed) =>
           /\ state = [before EXCEPT !.facing = Some(LeftOf(Get(before.facing)))]
           /\ ~raised
    /\ (IsCommand(line, RIGHT) /\ before.is_placed) =>
           /\ state = [before EXCEPT !.facing = Some(RightOf(Get(before.facing)))]
           /\ ~raised
    /\ ((IsCommand(line, LEFT) \/ IsCommand(line, RIGHT)) /\ ~before.is_placed) =>
           /\ state = before
           /\ ~raised

\* A LEFT that wrapped from the first direction of the list to the last.
C9_Witness ==
    /\ IsCommand(line, LEFT)
    /\ before = Placed(2, 2, NORTH)
    /\ state = Placed(2, 2, WEST)

StreamCommand(k, kw) == KeywordOf[stream[k]] = Some(kw)

\* C10: on a placed robot LEFT then RIGHT, and RIGHT then LEFT, leave the
\* state the pair started from.
C10_LeftRightRoundTrip ==
    (/\ pos = 3
     /\ trace[1].is_placed
     /\ \/ StreamCommand(2, LEFT) /\ StreamCommand(3, RIGHT)
        \/ StreamCommand(2, RIGHT) /\ StreamCommand(3, LEFT)) =>
        /\ trace[3] = trace[1]
        /\ ~raised

\* PLACE 2,3,SOUTH, then a LEFT that turned the robot EAST, then a RIGHT.
C10_Witness ==
    /\ pos = 3
    /\ stream = <<PlaceLine(2, 3, SOUTH), LEFT, RIGHT>>
    /\ trace[2] = Placed(2, 3, EAST)
    /\ trace[3] = Placed(2, 3, SOUTH)

\* C11: on a placed robot four LEFT in a row, and four RIGHT in a row,
\* bring the starting facing (and state) back, and one, two or three do not.
C11_FourTurnsRestore ==
    (/\ pos = 5
     /\ trace[1].is_placed
     /\ \/ \A k \in 2..5 : StreamCommand(k, LEFT)
        \/ \A k \in 2..5 : StreamCommand(k, RIGHT)) =>
        /\ trace[5] = trace[1]
        /\ \A k \in 2..4 : trace[k].facing # trace[1].facing
        /\ ~raised

\* PLACE 1,1,EAST and four LEFT: the robot faces WEST after two of them and
\* EAST again after the fourth.
C11_Witness ==
    /\ pos = 5
    /\ stream = <<PlaceLine(1, 1, EAST), LEFT, LEFT, LEFT, LEFT>>
    /\ trace[3] = Placed(1, 1, WEST)
    /\ trace[5] = Placed(1, 1, EAST)

\* The decimal digit of a table coordinate.
CoordName(n) == <<(<<"0", "1", "2", "3", "4">>)[n + 1]>>

\* C12: a call returns a value other than None if and only if its keyword
\* is REPORT and the robot is placed when the line is processed, and the
\* value is then "X,Y,FACING" of the current x, y and facing, the facing in
\* upper case; every other line returns None.
C12_OnlyReportReturns ==
    line # None =>
        /\ result # None <=> (IsCommand(line, REPORT) /\ before.is_placed)
        /\ result # None =>
               /\ state = before
               /\ Get(state.facing) \in DirectionNames
               /\ result = Some(CoordName(Get(state.x)) \o Comma
                                \o CoordName(Get(state.y)) \o Comma
                                \o Get(state.facing))
        /\ ~raised

\* REPORT in mixed case on a robot at 3,1,SOUTH.
C12_Witness ==
    /\ line = Some(<<"r", "E", "p", "O", "r", "T">>)
    /\ before = Placed(3, 1, SOUTH)
    /\ result = Some(<<"3", ",", "1", ",", "S", "O", "U", "T", "H">>)

CommandKeywords == {PLACE, MOVE, LEFT, RIGHT, REPORT}

\* Lines that are blank after trimming or whose keyword is no command.
BlankOrUnknownLines ==
    {raw \in Lines :
        \/ KeywordOf[raw] = None
        \/ Get(KeywordOf[raw]) \notin CommandKeywords}

\* C13: a blank line, or a line whose keyword is none of PLACE, MOVE, LEFT,
\* RIGHT, REPORT, leaves the state unchanged and returns None, unplaced or
\* placed.
C13_BlankOrUnknownIgnored ==
    (line # None /\ Get(line) \in BlankOrUnknownLines) =>
        /\ state = before
        /\ result = None
        /\ ~raised

\* JUMP processed on a placed robot.
C13_Witness ==
    /\ line = Some(<<"J", "U", "M", "P">>)
    /\ before = Placed(2, 2, WEST)
    /\ state = Placed(2, 2, WEST)
    /\ result = None

\* The state the k-th line of the list is processed on.
StateBefore(k) == IF k = 1 THEN create_initial_state ELSE trace[k - 1]

\* The k-th line is rejected: a blank line or a bad keyword, a malformed
\* PLACE, a PLACE off the table or with a bad direction, a MOVE off the
\* table, or any command other than PLACE before placement.
RejectedAt(k) ==
    LET raw == stream[k]
        st == StateBefore(k)
    IN  \/ raw \in BlankOrUnknownLines
        \/ raw \in MalformedPlace
        \/ raw \in RejectedPlaceLines
        \/ KeywordOf[raw] # Some(PLACE) /\ ~st.is_placed
        \/ /\ KeywordOf[raw] = Some(MOVE)
           /\ st.is_placed
           /\ ~OnTable(Get(st.x) + UnitX(Get(st.facing)),
                       Get(st.y) + UnitY(Get(st.facing)))

\* The first n lines of the list without the rejected ones.
RECURSIVE KeptLines(_)
KeptLines(n) ==
    IF n = 0 THEN <<>>
    ELSE IF RejectedAt(n) THEN KeptLines(n - 1)
    ELSE Append(KeptLines(n - 1), stream[n])

\* C14: no line raises, and after any lines of a list the state and the
\* outputs are those of the same lines with every rejected line removed.
C14_RejectedLinesLeaveNoTrace ==
    /\ ~raised
    /\ pos >= 1 =>
           /\ state = run_commands(KeptLines(pos)).state
           /\ outputs = run_commands(KeptLines(pos)).outputs

\* MOVE before placement, PLACE 0,4,NORTH, then a MOVE off the table: only
\* the PLACE is kept.
C14_Witness ==
    /\ pos = 3
    /\ stream = <<MOVE, PlaceLine(0, 4, NORTH), MOVE>>
    /\ KeptLines(3) = <<PlaceLine(0, 4, NORTH)>>
    /\ state = Placed(0, 4, NORTH)
    /\ outputs = <<>>

\* The first n lines of the list, all letters in upper case.
UpperLines(n) == [k \in 1..n |-> upper(stream[k])]

\* The first n lines of the list, all letters in lower case.
LowerLines(n) == [k \in 1..n |-> lower(stream[k])]

\* C15: a list of lines, the same list in upper case and the same list in
\* lower case lead to the same state after every line and to the same
\* outputs, and every output is in upper case.
C15_LetterCaseIgnored ==
    /\ ~raised
    /\ pos >= 1 =>
           /\ state = run_commands(UpperLines(pos)).state
           /\ outputs = run_commands(UpperLines(pos)).outputs
           /\ state = run_commands(LowerLines(pos)).state
           /\ outputs = run_commands(LowerLines(pos)).outputs
           /\ \A k \in 1..Len(outputs) : outputs[k] = upper(outputs[k])

\* place 0,0,north, move, rEpOrT returns 0,1,NORTH.
C15_Witness ==
    /\ pos = 3
    /\ stream = << lower(PLACE) \o Sp \o Args(<<"0">>, <<"0">>, lower(NORTH)),
                   lower(MOVE),
                   <<"r", "E", "p", "O", "r", "T">> >>
    /\ outputs = << <<"0", ",", "1", ",", "N", "O", "R", "T", "H">> >>

----------------------------------------------------------------------------
(* Properties of main and run_stream. *)

\* The texts a stream of printed items holds as results, in order.
RECURSIVE Results(_)
Results(out) ==
    IF out = <<>> THEN <<>>
    ELSE IF Head(out).by = "result"
         THEN <<Head(out).text>> \o Results(Tail(out))
         ELSE Results(Tail(out))

\* The result the n-th line of the source calls for: one if it is a REPORT
\* line and the robot is placed when it is read, none otherwise.
ResultOfLine(n) ==
    IF Keyword(stream[n]) = Some(REPORT) /\ StateBefore(n).is_placed
    THEN << CoordName(Get(StateBefore(n).x)) \o Comma
            \o CoordName(Get(StateBefore(n).y)) \o Comma
            \o Get(StateBefore(n).facing) >>
    ELSE <<>>

RECURSIVE ExpectedResults(_)
ExpectedResults(n) ==
    IF n = 0 THEN <<>> ELSE ExpectedResults(n - 1) \o ResultOfLine(n)

\* C16: run_stream reads the lines in the order of the source, the state
\* after the k-th line read is what process_line makes of the state after
\* the line before it and the k-th line of the source, and the results
\* printed are, in order, one for every REPORT line read while the robot
\* was placed, each formatted from the state the lines before it left.
C16_ResultsInSourceOrder ==
    pc \in {"run_stream", "returned"} =>
        /\ Len(trace) = pos
        /\ pos <= Len(stream)
        /\ \A k \in 1..pos :
               trace[k] = process_line(StateBefore(k), stream[k]).state
        /\ pos >= 1 => /\ state = trace[pos]
                       /\ line = Some(stream[pos])
        /\ Results(stdout) = ExpectedResults(pos)

\* PLACE 1,2,EAST, REPORT, MOVE, report prints 1,2,EAST and then 2,2,EAST.
C16_Witness ==
    /\ pos = 4
    /\ ~visual
    /\ stream = << PlaceLine(1, 2, EAST) \o Newline, REPORT \o Newline,
                   MOVE \o Newline, lower(REPORT) >>
    /\ stdout = << [by |-> "result",
                    text |-> <<"1", ",", "2", ",", "E", "A", "S", "T">>],
                   [by |-> "result",
                    text |-> <<"2", ",", "2", ",", "E", "A", "S", "T">>] >>

\* A step in which the source cannot be opened or read.
SourceFails == ReadFails \/ (open_fails(argv) /\ MainStart)

LinesRead == SubSeq(stream, 1, pos)

\* C18: render_table leaves the state as it finds it, and run_stream with
\* visual on passes through the same states and prints the same results in
\* the same order as run_stream with visual off, on the same lines.
C18_RenderReadOnly ==
    pc \in {"run_stream", "returned"} =>
        LET on == run_stream(LinesRead, TRUE)
            off == run_stream(LinesRead, FALSE)
        IN  /\ render_table(state).state = state
            /\ on.trace = off.trace
            /\ Results(on.stdout) = Results(off.stdout)
            /\ trace = off.trace
            /\ Results(stdout) = Results(off.stdout)

\* With -v, after PLACE 1,2,EAST, MOVE, LEFT, REPORT the robot is at
\* 2,2,NORTH, and the empty table, four echoes, four tables and the one
\* result 2,2,NORTH were printed.
C18_Witness ==
    /\ visual
    /\ pos = 4
    /\ stream = << PlaceLine(1, 2, EAST) \o Newline, MOVE \o Newline,
                   LEFT \o Newline, REPORT \o Newline >>
    /\ state = Placed(2, 2, NORTH)
    /\ Len(stdout) = 10
    /\ Results(stdout) = << <<"2", ",", "2", ",", "N", "O", "R", "T", "H">> >>

----------------------------------------------------------------------------
\* C19: on a placed robot, a MOVE call leaves facing and is_placed as they
\* were, a LEFT or RIGHT call leaves x, y and is_placed as they were, and a
\* REPORT call leaves the whole state as it was and returns a string, the
\* string the same call made again returns.
C19_CommandsKeepTheRest ==
    (line # None /\ before.is_placed) =>
        /\ IsCommand(line, MOVE) =>
               /\ state.facing = before.facing
               /\ state.is_placed
        /\ (IsCommand(line, LEFT) \/ IsCommand(line, RIGHT)) =>
               /\ state.x = before.x
               /\ state.y = before.y
               /\ state.is_placed
        /\ IsCommand(line, REPORT) =>
               /\ state = before
               /\ result # None
               /\ dispatch(state, Lexed[Get(line)])
                      = Outcome(state, result, FALSE)
        /\ ~raised

\* A MOVE at the north edge facing NORTH, which changes nothing.
C19_Witness ==
    /\ IsCommand(line, MOVE)
    /\ before = Placed(2, 4, NORTH)
    /\ state = Placed(2, 4, NORTH)
    /\ result = None

----------------------------------------------------------------------------
\* The line cut after its keyword, or after its second token if the keyword
\* is PLACE.
FirstTokens(raw) ==
    LET parts == split(strip(raw))
    IN  IF parts = <<>> THEN <<>>
        ELSE IF Len(parts) >= 2 /\ upper(parts[1]) = PLACE
             THEN parts[1] \o Sp \o parts[2]
             ELSE parts[1]

FirstTokensLexed == [raw \in Lines |-> lex(FirstTokens(raw))]

PlaceWithExtraToken ==
    PLACE \o Sp \o Args(<<"1">>, <<"2">>, NORTH) \o Sp
    \o <<"E", "X", "T", "R", "A">>

MoveWithExtraToken == MOVE \o Sp \o <<"E", "X", "T", "R", "A">>

PlaceSplitAcrossTokens ==
    PLACE \o Sp \o <<"1">> \o Comma \o <<"2">> \o Comma \o Sp \o NORTH

\* C20: a call does to the state, and returns, what the call with the line
\* cut after its keyword (after its second token for PLACE) does and
\* returns: PLACE 1,2,NORTH EXTRA places the robot at 1,2,NORTH, MOVE EXTRA
\* does what MOVE does, and PLACE 1,2, NORTH changes nothing.
C20_OnlyFirstTokensCount ==
    line # None =>
        /\ Outcome(state, result, raised)
               = dispatch(before, FirstTokensLexed[Get(line)])
        /\ line = Some(PlaceWithExtraToken) =>
               /\ state = Placed(1, 2, NORTH)
               /\ result = None
        /\ line = Some(MoveWithExtraToken) =>
               /\ state = move(before).state
               /\ result = None
        /\ line = Some(PlaceSplitAcrossTokens) =>
               /\ state = before
               /\ result = None
        /\ ~raised

\* PLACE 1,2,NORTH EXTRA on a robot at 4,4,WEST.
C20_Witness ==
    /\ line = Some(PlaceWithExtraToken)
    /\ before = Placed(4, 4, WEST)
    /\ state = Placed(1, 2, NORTH)

====
